---------------------------- MODULE Spec2Model ----------------------------
(***************************************************************************)
(* Model of src/window.py (class SnakeGame): the game state machine, the   *)
(* snake movement / collision step, food spawning and window resizing.     *)
(*                                                                         *)
(* Positions are pixel pairs <<x, y>>, multiples of CELL_SIZE, exactly as  *)
(* in the source.  The window sizes are scaled down: the source's minimum  *)
(* and default windows are 24x16 and 40x28 cells; here they are MinCols x  *)
(* MinRows and DefaultCols x DefaultRows cells, so that TLC can enumerate  *)
(* every snake.  Rendering, fonts, images and sound do not influence any   *)
(* variable modelled here and are left out.  Of the two particle pools     *)
(* the model keeps whether each list is non-empty.  The model describes    *)
(* the game while run()'s loop is going: a quit key makes its handler      *)
(* return False without changing any field, and the process then ends, so  *)
(* quitting only cuts a behaviour short.                                   *)
(***************************************************************************)
EXTENDS Integers, Sequences, FiniteSets, TLC

(***************************************************************************)
(* Bounds of the model                                                     *)
(***************************************************************************)
MinCols == 2
MinRows == 2
DefaultCols == 4
DefaultRows == 3
\* the eating step is not taken once the score has reached MaxScore
MaxScore == 3

(***************************************************************************)
(* Program constants (SnakeGame.__init__)                                  *)
(***************************************************************************)
CELL_SIZE == 25
MIN_WIDTH == MinCols * CELL_SIZE
MIN_HEIGHT == MinRows * CELL_SIZE
DEFAULT_WIDTH == DefaultCols * CELL_SIZE
DEFAULT_HEIGHT == DefaultRows * CELL_SIZE

\* class GameState(Enum)
GameState == {"MENU", "PLAYING", "PAUSED", "GAME_OVER", "SETTINGS"}

\* the pygame key codes the handlers compare against, and one other key
Keys == {"SPACE", "RETURN", "s", "ESCAPE", "q", "r", "m", "UP", "w", "DOWN",
         "LEFT", "a", "RIGHT", "d", "x"}

\* the sizes <<event.w, event.h>> a VIDEORESIZE event may carry: one below
\* the minimum window and one that is not a multiple of the cell size
ResizeEvents == {<<MIN_WIDTH - 20, MIN_HEIGHT - 20>>,
                 <<DEFAULT_WIDTH + 10, DEFAULT_HEIGHT + 10>>}

\* the content of snake_highscore.txt at startup
StoredHighScores == {0, 1}

VARIABLES
    state,            \* self.state
    snake,            \* self.snake, head first
    direction,        \* self.direction
    next_direction,   \* self.next_direction
    food_pos,         \* self.food_pos
    score,            \* self.score
    high_score,       \* self.high_score
    game_over_reason, \* self.game_over_reason
    WIDTH,            \* self.WIDTH
    HEIGHT,           \* self.HEIGHT
    no_space_found,   \* the last spawn_food call ended at its final return
    particles,        \* self.particles is a non-empty list
    food_particles,   \* self.food_particles is a non-empty list
    settings_particles, \* self.settings['particles']
    quiet             \* no key or resize event is delivered any more

vars == <<state, snake, direction, next_direction, food_pos, score, high_score,
          game_over_reason, WIDTH, HEIGHT, no_space_found, particles,
          food_particles, settings_particles, quiet>>

(***************************************************************************)
(* Helpers                                                                 *)
(***************************************************************************)
Max(a, b) == IF a >= b THEN a ELSE b

\* the set of positions of a snake (Python's `in self.snake`)
Segments(s) == {s[i] : i \in 1..Len(s)}

\* update_grid_dimensions
GRID_WIDTH(w) == w \div CELL_SIZE
GRID_HEIGHT(h) == h \div CELL_SIZE

\* range(0, n, CELL_SIZE)
Range0(n) == {v \in 0..(n - 1) : v % CELL_SIZE = 0}

\* the cells random.randint can produce in spawn_food
TrialCells(w, h) ==
    {<<c * CELL_SIZE, r * CELL_SIZE>> :
        c \in 0..Max(0, GRID_WIDTH(w) - 1), r \in 0..Max(0, GRID_HEIGHT(h) - 1)}

\* the cells the fallback loops of spawn_food visit
ScanCells(w, h) == {<<x, y>> : x \in Range0(w), y \in Range0(h)}

\* variant: the fallback scan visits the rows first (for y: for x:)
FallbackScan_rowMajor(s, w, h) ==
    LET free == ScanCells(w, h) \ Segments(s)
    IN  IF free = {} THEN <<CELL_SIZE, CELL_SIZE>>
        ELSE CHOOSE p \in free :
                \A q \in free : p[2] < q[2] \/ (p[2] = q[2] /\ p[1] <= q[1])

\* the first cell of the fallback scan (for x: for y:) that is not in the
\* snake; <<CELL_SIZE, CELL_SIZE>> when the scan finds none
FallbackScan(s, w, h) ==
    LET free == ScanCells(w, h) \ Segments(s)
    IN  IF free = {} THEN <<CELL_SIZE, CELL_SIZE>>
        ELSE CHOOSE p \in free :
                \A q \in free : p[1] < q[1] \/ (p[1] = q[1] /\ p[2] <= q[2])

\* the fallback scan finds no free cell
NoSpaceFound(s, w, h) == ScanCells(w, h) \ Segments(s) = {}

\* variant: the random trial is returned without the `not in self.snake` test
spawn_food_unchecked(s, w, h) == TrialCells(w, h) \cup {FallbackScan(s, w, h)}

\* every position spawn_food can return: a random trial that is not in the
\* snake, or, when all the trials collide, the result of the fallback
spawn_food(s, w, h) ==
    (TrialCells(w, h) \ Segments(s)) \cup {FallbackScan(s, w, h)}

\* variant: the score is stored whenever a game ends
save_high_score_always(sc, hs) == sc

\* save_high_score: the new value of high_score
save_high_score(sc, hs) == IF sc > hs THEN sc ELSE hs

\* create_particles: the pool after the explosion particles are appended
create_particles(pool) == IF settings_particles THEN TRUE ELSE pool

\* create_food_particles: one particle is appended with probability 0.1
create_food_particles(pool) ==
    IF settings_particles THEN {pool, TRUE} ELSE {pool}

\* update_particles on one pool: every life goes down by one and the
\* particles whose life is over are removed; the pool is emptied when the
\* last of them goes
ExpirePool(pool) == IF pool THEN {TRUE, FALSE} ELSE {FALSE}

\* reset_game: the snake cell at the grid centre
Center(w, h) ==
    <<(GRID_WIDTH(w) \div 2) * CELL_SIZE, (GRID_HEIGHT(h) \div 2) * CELL_SIZE>>

(***************************************************************************)
(* Initial state: SnakeGame.__init__, where load_settings has read the     *)
(* value sp of 'particles'                                                 *)
(***************************************************************************)
InitWith(sp) ==
    /\ settings_particles = sp
    /\ quiet = FALSE
    /\ WIDTH = DEFAULT_WIDTH
    /\ HEIGHT = DEFAULT_HEIGHT
    /\ state = "MENU"
    \* self.reset_game()
    /\ snake = <<Center(DEFAULT_WIDTH, DEFAULT_HEIGHT)>>
    /\ direction = <<0, 0>>
    /\ next_direction = <<0, 0>>
    /\ food_pos \in spawn_food(snake, DEFAULT_WIDTH, DEFAULT_HEIGHT)
    /\ no_space_found = NoSpaceFound(snake, DEFAULT_WIDTH, DEFAULT_HEIGHT)
    /\ score = 0
    /\ game_over_reason = ""
    \* self.load_high_score()
    /\ high_score \in StoredHighScores
    \* self.particles = [], self.food_particles = []
    /\ particles = FALSE
    /\ food_particles = FALSE

\* snake_settings.json turns the particle effects off
Init == InitWith(FALSE)

\* no settings file, or one that keeps the default 'particles': True
InitParticles == InitWith(TRUE)

(***************************************************************************)
(* reset_game and game_over, called by the handlers below                  *)
(***************************************************************************)
\* variant: reset_game leaves the particle pools as they are
reset_game_keepParticles ==
    LET start == <<Center(WIDTH, HEIGHT)>>
    IN  /\ snake' = start
        /\ direction' = <<0, 0>>
        /\ next_direction' = <<0, 0>>
        /\ food_pos' \in spawn_food(start, WIDTH, HEIGHT)
        /\ no_space_found' = NoSpaceFound(start, WIDTH, HEIGHT)
        /\ score' = 0
        /\ game_over_reason' = ""
        /\ UNCHANGED <<particles, food_particles>>

reset_game ==
    LET start == <<Center(WIDTH, HEIGHT)>>
    IN  /\ snake' = start
        /\ direction' = <<0, 0>>
        /\ next_direction' = <<0, 0>>
        /\ food_pos' \in spawn_food(start, WIDTH, HEIGHT)
        /\ no_space_found' = NoSpaceFound(start, WIDTH, HEIGHT)
        /\ score' = 0
        /\ game_over_reason' = ""
        /\ particles' = FALSE
        /\ food_particles' = FALSE

\* variant: game_over goes back to the menu
game_over_toMenu(reason) ==
    /\ game_over_reason' = reason
    /\ high_score' = save_high_score(score, high_score)
    /\ state' = "MENU"
    /\ particles' = IF snake # <<>> THEN create_particles(particles)
                                    ELSE particles

game_over(reason) ==
    /\ game_over_reason' = reason
    /\ high_score' = save_high_score(score, high_score)
    /\ state' = "GAME_OVER"
    /\ particles' = IF snake # <<>> THEN create_particles(particles)
                                    ELSE particles

(***************************************************************************)
(* Key events, dispatched by run() on the current state.  ESCAPE and q in  *)
(* the menu and on the game-over screen return False and change no field.  *)
(***************************************************************************)
handle_menu_events(key) ==
    /\ state = "MENU"
    /\ UNCHANGED <<settings_particles, quiet>>
    /\ IF key \in {"SPACE", "RETURN"}
       THEN /\ state' = "PLAYING"
            /\ reset_game
            /\ UNCHANGED <<high_score, WIDTH, HEIGHT>>
       ELSE IF key = "s"
       THEN /\ state' = "SETTINGS"
            /\ UNCHANGED <<snake, direction, next_direction, food_pos, score,
                           high_score, game_over_reason, WIDTH, HEIGHT,
                           no_space_found, particles, food_particles>>
       ELSE UNCHANGED vars

\* variant: the movement keys without the test on the current axis
Turn_anyAxis(key, d, nd) ==
    IF key \in {"UP", "w"} THEN <<0, -CELL_SIZE>>
    ELSE IF key \in {"DOWN", "s"} THEN <<0, CELL_SIZE>>
    ELSE IF key \in {"LEFT", "a"} THEN <<-CELL_SIZE, 0>>
    ELSE IF key \in {"RIGHT", "d"} THEN <<CELL_SIZE, 0>>
    ELSE nd

\* variant: each movement key tests the other component of the direction
Turn_otherAxis(key, d, nd) ==
    IF key \in {"UP", "w"} /\ d[1] = 0 THEN <<0, -CELL_SIZE>>
    ELSE IF key \in {"DOWN", "s"} /\ d[1] = 0 THEN <<0, CELL_SIZE>>
    ELSE IF key \in {"LEFT", "a"} /\ d[2] = 0 THEN <<-CELL_SIZE, 0>>
    ELSE IF key \in {"RIGHT", "d"} /\ d[2] = 0 THEN <<CELL_SIZE, 0>>
    ELSE nd

\* the movement keys of handle_playing_events: the new next_direction
Turn(key, d, nd) ==
    IF key \in {"UP", "w"} /\ d[2] = 0 THEN <<0, -CELL_SIZE>>
    ELSE IF key \in {"DOWN", "s"} /\ d[2] = 0 THEN <<0, CELL_SIZE>>
    ELSE IF key \in {"LEFT", "a"} /\ d[1] = 0 THEN <<-CELL_SIZE, 0>>
    ELSE IF key \in {"RIGHT", "d"} /\ d[1] = 0 THEN <<CELL_SIZE, 0>>
    ELSE nd

handle_playing_events(key) ==
    /\ state = "PLAYING"
    /\ UNCHANGED <<settings_particles, quiet>>
    /\ IF key = "ESCAPE"
       THEN /\ state' = "PAUSED"
            /\ UNCHANGED <<snake, direction, next_direction, food_pos, score,
                           high_score, game_over_reason, WIDTH, HEIGHT,
                           no_space_found, particles, food_particles>>
       ELSE IF key = "r"
       THEN /\ reset_game
            /\ UNCHANGED <<state, high_score, WIDTH, HEIGHT>>
       ELSE /\ next_direction' = Turn(key, direction, next_direction)
            /\ UNCHANGED <<state, snake, direction, food_pos, score, high_score,
                           game_over_reason, WIDTH, HEIGHT, no_space_found,
                           particles, food_particles>>

handle_paused_events(key) ==
    /\ state = "PAUSED"
    /\ UNCHANGED <<settings_particles, quiet>>
    /\ IF key \in {"SPACE", "ESCAPE"}
       THEN /\ state' = "PLAYING"
            /\ UNCHANGED <<snake, direction, next_direction, food_pos, score,
                           high_score, game_over_reason, WIDTH, HEIGHT,
                           no_space_found, particles, food_particles>>
       ELSE IF key = "m"
       THEN /\ state' = "MENU"
            /\ UNCHANGED <<snake, direction, next_direction, food_pos, score,
                           high_score, game_over_reason, WIDTH, HEIGHT,
                           no_space_found, particles, food_particles>>
       ELSE IF key = "r"
       THEN /\ reset_game
            /\ state' = "PLAYING"
            /\ UNCHANGED <<high_score, WIDTH, HEIGHT>>
       ELSE UNCHANGED vars

handle_game_over_events(key) ==
    /\ state = "GAME_OVER"
    /\ UNCHANGED <<settings_particles, quiet>>
    /\ IF key \in {"r", "SPACE"}
       THEN /\ reset_game
            /\ state' = "PLAYING"
            /\ UNCHANGED <<high_score, WIDTH, HEIGHT>>
       ELSE IF key = "m"
       THEN /\ state' = "MENU"
            /\ UNCHANGED <<snake, direction, next_direction, food_pos, score,
                           high_score, game_over_reason, WIDTH, HEIGHT,
                           no_space_found, particles, food_particles>>
       ELSE UNCHANGED vars

(***************************************************************************)
(* Window resize: handle_resize and check_bounds_after_resize              *)
(***************************************************************************)
\* variant: the size is taken to the next multiple of the cell size
Snap_nextCell(n, min) == ((Max(n, min) \div CELL_SIZE) + 1) * CELL_SIZE

\* handle_resize: clamp to the minimum, then snap down to whole cells
Snap(n, min) == (Max(n, min) \div CELL_SIZE) * CELL_SIZE

\* variant: the bounds test with <= in place of <
InBounds_inclusive(p, w, h) == p[1] <= w /\ p[2] <= h /\ p[1] >= 0 /\ p[2] >= 0

\* check_bounds_after_resize: the test a segment passes to be kept
InBounds(p, w, h) == p[1] < w /\ p[2] < h /\ p[1] >= 0 /\ p[2] >= 0

\* check_bounds_after_resize: valid_snake
ValidSnake(s, w, h) ==
    LET Keep(seg) == InBounds(seg, w, h)
    IN  SelectSeq(s, Keep)

\* variant: a resize never ends the game
HeadLost_never(s, valid) == FALSE

\* variant: the game ends only when no segment is left
HeadLost_onlyEmpty(s, valid) == valid = <<>>

\* check_bounds_after_resize: the condition that ends the game
HeadLost(s, valid) == valid = <<>> \/ (s # <<>> /\ s[1] \notin Segments(valid))

check_bounds_after_resize(w, h) ==
    LET valid == ValidSnake(snake, w, h)
    IN  /\ IF food_pos[1] >= w \/ food_pos[2] >= h
           THEN /\ food_pos' \in spawn_food(snake, w, h)
                /\ no_space_found' = NoSpaceFound(snake, w, h)
           ELSE UNCHANGED <<food_pos, no_space_found>>
        /\ IF HeadLost(snake, valid)
           THEN /\ game_over("Screen resized - snake out of bounds!")
                /\ UNCHANGED snake
           ELSE /\ snake' = valid
                /\ IF valid = <<>>
                   THEN game_over("Screen resized - snake out of bounds!")
                   ELSE UNCHANGED <<state, high_score, game_over_reason,
                                    particles>>
        /\ UNCHANGED <<direction, next_direction, score, food_particles>>

\* variant: the positions are validated in PAUSED as well
handle_resize_alsoPaused(new_width, new_height) ==
    LET w == Snap(new_width, MIN_WIDTH)
        h == Snap(new_height, MIN_HEIGHT)
    IN  /\ WIDTH' = w
        /\ HEIGHT' = h
        /\ UNCHANGED <<settings_particles, quiet>>
        /\ IF state \in {"PLAYING", "PAUSED"}
           THEN check_bounds_after_resize(w, h)
           ELSE UNCHANGED <<state, snake, direction, next_direction, food_pos,
                            score, high_score, game_over_reason,
                            no_space_found, particles, food_particles>>

handle_resize(new_width, new_height) ==
    LET w == Snap(new_width, MIN_WIDTH)
        h == Snap(new_height, MIN_HEIGHT)
    IN  /\ WIDTH' = w
        /\ HEIGHT' = h
        /\ UNCHANGED <<settings_particles, quiet>>
        /\ IF state = "PLAYING"
           THEN check_bounds_after_resize(w, h)
           ELSE UNCHANGED <<state, snake, direction, next_direction, food_pos,
                            score, high_score, game_over_reason,
                            no_space_found, particles, food_particles>>

(***************************************************************************)
(* The simulation step: update_game                                        *)
(***************************************************************************)
\* variant: a game that has no direction yet starts to the right
Commit_startRight(d, nd) ==
    IF nd # <<0, 0>> THEN nd ELSE IF d = <<0, 0>> THEN <<CELL_SIZE, 0>> ELSE d

\* variant: the direction of the first move is kept for the whole game
Commit_lagging(d, nd) == IF d # <<0, 0>> THEN d ELSE nd

\* the direction committed by the step
Commit(d, nd) == IF nd # <<0, 0>> THEN nd ELSE d

\* variant: the two components of the direction are mixed up
NewHead_transposed(s, d) == <<s[1][1] + d[2], s[1][2] + d[1]>>

\* variant: a head that leaves the window comes back in on the other side
NewHead_wrap(s, d) == <<(s[1][1] + d[1]) % WIDTH, (s[1][2] + d[2]) % HEIGHT>>

\* new_head = (head_x + self.direction[0], head_y + self.direction[1])
NewHead(s, d) == <<s[1][1] + d[1], s[1][2] + d[2]>>

\* variant: the wall test with > in place of >=
WallCollision_offByOne(p, w, h) == p[1] < 0 \/ p[1] > w \/ p[2] < 0 \/ p[2] > h

\* "Check wall collision"
WallCollision(p, w, h) == p[1] < 0 \/ p[1] >= w \/ p[2] < 0 \/ p[2] >= h

\* "Check self collision"
SelfCollision(p, s) == p \in Segments(s)

\* variant: the head never eats
FoodCollision_never(p, food) == FALSE

\* "Check food collision"
FoodCollision(p, food) == p = food

\* variant: the new head is put behind the tail
Insert_append(p, s) == Append(s, p)

\* self.snake.insert(0, new_head)
Insert(p, s) == <<p>> \o s

\* variant: the tail is never removed
Pop_keepTail(s) == s

\* variant: a snake of one segment keeps its tail when it moves
Pop_notFirst(s) == IF Len(s) = 2 THEN s ELSE SubSeq(s, 1, Len(s) - 1)

\* self.snake.pop()
Pop(s) == SubSeq(s, 1, Len(s) - 1)

\* variant: the paused game is simulated as well
Simulating_alsoPaused(st) == st \in {"PLAYING", "PAUSED"}

\* `if self.state != GameState.PLAYING: return`
Simulating(st) == st = "PLAYING"

\* update_game, for games that stop growing at max_score points
update_game_upto(max_score) ==
    IF ~Simulating(state) THEN UNCHANGED vars
    ELSE
      LET d == Commit(direction, next_direction)
          new_head == NewHead(snake, d)
      IN
      /\ direction' = d
      /\ UNCHANGED <<settings_particles, quiet>>
      /\ IF d = <<0, 0>>
         THEN UNCHANGED <<state, snake, next_direction, food_pos, score,
                          high_score, game_over_reason, WIDTH, HEIGHT,
                          no_space_found, particles, food_particles>>
         ELSE IF WallCollision(new_head, WIDTH, HEIGHT)
         THEN /\ game_over("Hit the wall!")
              /\ UNCHANGED <<snake, next_direction, food_pos, score, WIDTH,
                             HEIGHT, no_space_found, food_particles>>
         ELSE IF SelfCollision(new_head, snake)
         THEN /\ game_over("Ate yourself!")
              /\ UNCHANGED <<snake, next_direction, food_pos, score, WIDTH,
                             HEIGHT, no_space_found, food_particles>>
         ELSE IF FoodCollision(new_head, food_pos)
         THEN /\ score < max_score
              /\ snake' = Insert(new_head, snake)
              /\ score' = score + 1
              /\ food_pos' \in spawn_food(snake', WIDTH, HEIGHT)
              /\ no_space_found' = NoSpaceFound(snake', WIDTH, HEIGHT)
              /\ particles' = create_particles(particles)
              /\ food_particles' \in create_food_particles(food_particles)
              /\ UNCHANGED <<state, next_direction, high_score,
                             game_over_reason, WIDTH, HEIGHT>>
         ELSE /\ snake' = Pop(Insert(new_head, snake))
              /\ food_particles' \in create_food_particles(food_particles)
              /\ UNCHANGED <<state, next_direction, food_pos, score,
                             high_score, game_over_reason, WIDTH, HEIGHT,
                             no_space_found, particles>>

\* update_game, with the score capped by the bound of the model
update_game == update_game_upto(MaxScore)

(***************************************************************************)
(* update_particles, called by run() once per frame after update_game      *)
(***************************************************************************)
update_particles ==
    /\ particles' \in ExpirePool(particles)
    /\ food_particles' \in ExpirePool(food_particles)
    /\ UNCHANGED <<state, snake, direction, next_direction, food_pos, score,
                   high_score, game_over_reason, WIDTH, HEIGHT, no_space_found,
                   settings_particles, quiet>>

\* the sizes a VIDEORESIZE event may carry in the current state: those of
\* ResizeEvents, and the size the window already has
ResizeEventsNow == ResizeEvents \cup {<<WIDTH, HEIGHT>>}

(***************************************************************************)
(* run(): each event of the queue is dispatched on the current state, and  *)
(* update_game and update_particles run once per frame, after any number   *)
(* of events                                                               *)
(***************************************************************************)
Next ==
    \/ \E key \in Keys : handle_menu_events(key)
    \/ \E key \in Keys : handle_playing_events(key)
    \/ \E key \in Keys : handle_paused_events(key)
    \/ \E key \in Keys : handle_game_over_events(key)
    \/ \E e \in ResizeEventsNow : handle_resize(e[1], e[2])
    \/ update_game
    \/ update_particles

Spec == Init /\ [][Next]_vars

\* the same loop with the particle effects on, under fewer events: each
\* handled key under one of its names, the settings screen is not opened,
\* and the window is only shrunk
PlainKeys == {"SPACE", "ESCAPE", "r", "m", "UP", "DOWN", "LEFT", "RIGHT"}

ShrinkEvent == <<MIN_WIDTH - 20, MIN_HEIGHT - 20>>

NextParticles ==
    \/ \E key \in PlainKeys : handle_menu_events(key)
    \/ \E key \in PlainKeys : handle_playing_events(key)
    \/ \E key \in PlainKeys : handle_paused_events(key)
    \/ \E key \in PlainKeys : handle_game_over_events(key)
    \/ handle_resize(ShrinkEvent[1], ShrinkEvent[2])
    \/ update_game
    \/ update_particles

SpecParticles == InitParticles /\ [][NextParticles]_vars

(***************************************************************************)
(* spawn_food on its own: the call in update_game, entered with a snake    *)
(* that has just eaten                                                     *)
(***************************************************************************)
\* two cells that share a side
Adjacent(p, q) ==
    \/ (p[1] = q[1] /\ (p[2] - q[2] = CELL_SIZE \/ q[2] - p[2] = CELL_SIZE))
    \/ (p[2] = q[2] /\ (p[1] - q[1] = CELL_SIZE \/ q[1] - p[1] = CELL_SIZE))

\* the snakes of n segments in a w x h window, head first, that moving and
\* eating produce: distinct cells, each segment next to the one before it
RECURSIVE SnakePaths(_, _, _)
SnakePaths(n, w, h) ==
    IF n = 1 THEN {<<c>> : c \in TrialCells(w, h)}
    ELSE UNION {{Append(s, c) : c \in {q \in TrialCells(w, h) \ Segments(s) :
                                          Adjacent(s[Len(s)], q)}} :
                s \in SnakePaths(n - 1, w, h)}

\* the windows spawn_food is called in
SpawnWindows == {<<MIN_WIDTH, MIN_HEIGHT>>, <<DEFAULT_WIDTH, DEFAULT_HEIGHT>>}

\* update_game at the call of spawn_food: the new head has been inserted on
\* the food and the score counts it
InitSpawn ==
    /\ \E win \in SpawnWindows, n \in 2..(MaxScore + 1) :
          /\ WIDTH = win[1]
          /\ HEIGHT = win[2]
          /\ snake \in SnakePaths(n, win[1], win[2])
    /\ state = "PLAYING"
    /\ direction = <<snake[1][1] - snake[2][1], snake[1][2] - snake[2][2]>>
    /\ next_direction = direction
    /\ food_pos = snake[1]
    /\ score = Len(snake) - 1
    /\ high_score = 0
    /\ game_over_reason = ""
    /\ no_space_found = FALSE
    /\ particles = FALSE
    /\ food_particles = FALSE
    /\ settings_particles = FALSE
    /\ quiet = FALSE

\* spawn_food returns from the while loop: a random trial is not in the snake
TrialSpawn ==
    /\ state = "PLAYING"
    /\ food_pos = snake[1]
    /\ food_pos' \in TrialCells(WIDTH, HEIGHT) \ Segments(snake)
    /\ no_space_found' = NoSpaceFound(snake, WIDTH, HEIGHT)
    /\ food_particles' \in create_food_particles(food_particles)
    /\ UNCHANGED <<state, snake, direction, next_direction, score, high_score,
                   game_over_reason, WIDTH, HEIGHT, particles,
                   settings_particles, quiet>>

\* spawn_food leaves the while loop after max_attempts collisions and
\* returns from the fallback loops, or the safe position
FallbackSpawn ==
    /\ state = "PLAYING"
    /\ food_pos = snake[1]
    /\ food_pos' = FallbackScan(snake, WIDTH, HEIGHT)
    /\ no_space_found' = NoSpaceFound(snake, WIDTH, HEIGHT)
    /\ food_particles' \in create_food_particles(food_particles)
    /\ UNCHANGED <<state, snake, direction, next_direction, score, high_score,
                   game_over_reason, WIDTH, HEIGHT, particles,
                   settings_particles, quiet>>

NextSpawn == TrialSpawn \/ FallbackSpawn

SpecSpawn == InitSpawn /\ [][NextSpawn]_vars

(***************************************************************************)
(* Games long enough to leave the part of the window a resize keeps and    *)
(* to come back into it: one more point than MaxScore, the keys that start *)
(* and steer a game, and a resize to the minimum width only                *)
(***************************************************************************)
GapKeys == {"SPACE", "UP", "DOWN", "LEFT", "RIGHT"}

\* the window is narrowed to the minimum width, its height is kept
NarrowEvent == <<MIN_WIDTH, DEFAULT_HEIGHT>>

NextGap ==
    \/ \E key \in GapKeys : handle_menu_events(key)
    \/ \E key \in GapKeys : handle_playing_events(key)
    \/ \E key \in GapKeys : handle_game_over_events(key)
    \/ handle_resize(NarrowEvent[1], NarrowEvent[2])
    \/ update_game_upto(MaxScore + 1)
    \/ update_particles

SpecGap == Init /\ [][NextGap]_vars

(***************************************************************************)
(* Games the player leaves alone: after some last key or resize event      *)
(* run() goes on calling update_game and update_particles every frame      *)
(***************************************************************************)
\* the last event has been delivered
GoQuiet ==
    /\ ~quiet
    /\ quiet' = TRUE
    /\ UNCHANGED <<state, snake, direction, next_direction, food_pos, score,
                   high_score, game_over_reason, WIDTH, HEIGHT,
                   no_space_found, particles, food_particles,
                   settings_particles>>

\* the score at which the model stops the growth: MaxScore while events
\* arrive; a snake left alone crosses the window once at most, and is given
\* room for the food it finds on the way
StepCap ==
    IF quiet THEN MaxScore + Max(DefaultCols, DefaultRows) ELSE MaxScore

NextQuiet ==
    \/ ~quiet /\ \E key \in PlainKeys : handle_menu_events(key)
    \/ ~quiet /\ \E key \in PlainKeys : handle_playing_events(key)
    \/ ~quiet /\ \E key \in PlainKeys : handle_paused_events(key)
    \/ ~quiet /\ \E key \in PlainKeys : handle_game_over_events(key)
    \/ ~quiet /\ handle_resize(ShrinkEvent[1], ShrinkEvent[2])
    \/ GoQuiet
    \/ update_game_upto(StepCap)
    \/ update_particles

\* run() calls update_game in every iteration of its loop: a step that
\* stays possible is taken
SpecQuiet ==
    Init /\ [][NextQuiet]_vars /\ WF_vars(update_game_upto(StepCap))

(***************************************************************************)
(* Type correctness                                                        *)
(***************************************************************************)
Directions == {<<0, -CELL_SIZE>>, <<0, CELL_SIZE>>, <<-CELL_SIZE, 0>>, <<CELL_SIZE, 0>>}

TypeOK ==
    /\ state \in GameState
    /\ snake \in Seq(Int \X Int)
    /\ direction \in Directions \cup {<<0, 0>>}
    /\ next_direction \in Directions \cup {<<0, 0>>}
    /\ food_pos \in Int \X Int
    /\ score \in Nat
    /\ high_score \in Nat
    /\ game_over_reason \in STRING
    /\ WIDTH \in Nat /\ HEIGHT \in Nat
    /\ no_space_found \in BOOLEAN
    /\ particles \in BOOLEAN
    /\ food_particles \in BOOLEAN
    /\ settings_particles \in BOOLEAN
    /\ quiet \in BOOLEAN

(***************************************************************************)
(* Definitions used to state the claims                                    *)
(***************************************************************************)
\* a position inside the current window
InWindow(p) == 0 <= p[1] /\ p[1] < WIDTH /\ 0 <= p[2] /\ p[2] < HEIGHT

\* the cells of the current grid
GridCellsNow ==
    {<<c * CELL_SIZE, r * CELL_SIZE>> :
        c \in 0..((WIDTH \div CELL_SIZE) - 1), r \in 0..((HEIGHT \div CELL_SIZE) - 1)}

\* some cell of the current grid is not occupied by the snake
SomeCellFree == \E c \in GridCellsNow : \A i \in 1..Len(snake) : snake[i] # c

\* the direction the next step moves in, and the head it computes
StepDirection == IF next_direction # <<0, 0>> THEN next_direction ELSE direction
StepHead == <<snake[1][1] + StepDirection[1], snake[1][2] + StepDirection[2]>>

\* a step of update_game that moves: PLAYING with a non-zero direction
MovingStep == update_game /\ state = "PLAYING" /\ StepDirection # <<0, 0>>

\* the direction a movement key asks for
Requested(key) ==
    IF key \in {"UP", "w"} THEN <<0, -CELL_SIZE>>
    ELSE IF key \in {"DOWN", "s"} THEN <<0, CELL_SIZE>>
    ELSE IF key \in {"LEFT", "a"} THEN <<-CELL_SIZE, 0>>
    ELSE <<CELL_SIZE, 0>>

MovementKeys == {"UP", "w", "DOWN", "s", "LEFT", "a", "RIGHT", "d"}

Perpendicular(r, d) == r[1] * d[1] + r[2] * d[2] = 0

(***************************************************************************)
(* Claims                                                                  *)
(***************************************************************************)

\* C1 (as claimed): while the state is PLAYING every snake segment lies
\* inside the current window.  Violated: a resize received while PAUSED is
\* not validated, and the resume goes back to PLAYING with the old snake.
C1_SnakeInBoundsWhilePlaying ==
    state = "PLAYING" => \A i \in 1..Len(snake) : InWindow(snake[i])

\* C2: in every reachable state the snake is non-empty and holds no
\* position twice.
C2_SnakeNonEmptyNoDuplicates ==
    /\ Len(snake) >= 1
    /\ \A i, j \in 1..Len(snake) : i # j => snake[i] # snake[j]

\* C2 witness: a snake that a resize has truncated goes on playing
C2_Witness ==
    state = "PLAYING" /\ Len(snake) >= 2 /\ Len(snake) < score + 1

\* C3 (as claimed): in every reachable state the food is on no snake
\* segment.  Violated once the snake fills the grid: spawn_food then
\* returns (CELL_SIZE, CELL_SIZE), a cell of the snake.
C3_FoodNeverOnSnake == \A i \in 1..Len(snake) : snake[i] # food_pos

\* C3 (amended): in every reachable state the food is on no snake segment,
\* unless the most recent spawn_food call found no free cell.
C3_FoodOffSnakeUnlessNoSpace ==
    ~no_space_found => \A i \in 1..Len(snake) : snake[i] # food_pos

\* C3 witness: food spawned after an eating step, beside a longer snake
C3_Witness ==
    /\ state = "PLAYING" /\ score >= 2 /\ Len(snake) = score + 1
    /\ ~no_space_found
    /\ \A i \in 1..Len(snake) : snake[i] # food_pos

\* C4: whatever the random trials give, spawn_food returns a cell of the
\* current grid, and one that is not on the snake whenever the snake leaves
\* a cell of the grid free.
C4_SpawnFoodFreeCellInGrid ==
    \A p \in spawn_food(snake, WIDTH, HEIGHT) :
        /\ p \in GridCellsNow
        /\ SomeCellFree => \A i \in 1..Len(snake) : snake[i] # p

\* C4 witness: the food in play was spawned beside a snake of three cells
C4_Witness ==
    /\ state = "PLAYING" /\ Len(snake) = 3 /\ score = 2
    /\ SomeCellFree
    /\ food_pos \in GridCellsNow

\* C5: with a non-zero current direction d, a movement key asking for r in
\* PLAYING sets next_direction to r when r is perpendicular to d, and
\* leaves next_direction as it was when r = d or r = -d.
C5_TurnOnlyPerpendicular ==
    [][\A key \in MovementKeys :
          (handle_playing_events(key) /\ direction # <<0, 0>>) =>
              IF Perpendicular(Requested(key), direction)
              THEN next_direction' = Requested(key)
              ELSE next_direction' = next_direction]_vars

\* C5 witness: a perpendicular turn is buffered beside a non-zero direction
C5_Witness ==
    /\ state = "PLAYING" /\ direction # <<0, 0>>
    /\ next_direction # <<0, 0>>
    /\ Perpendicular(next_direction, direction)

\* C6 (as claimed): every step whose new head is the food position
\* lengthens the snake by one and raises the score by one.  Violated when
\* the step ends the game instead: the collision checks come first.
C6_HeadOnFoodAlwaysGrows ==
    [][(MovingStep /\ StepHead = food_pos) =>
          /\ Len(snake') = Len(snake) + 1
          /\ score' = score + 1]_vars

\* C6 (amended): a step that does not end the game and whose new head is
\* the food position keeps the whole snake behind the new head (length + 1)
\* and raises the score by exactly 1; a step that neither eats nor ends the
\* game leaves the length and the score unchanged.
C6_GrowthOnEating ==
    [][(MovingStep /\ state' = "PLAYING") =>
          IF StepHead = food_pos
          THEN /\ snake' = <<StepHead>> \o snake
               /\ Len(snake') = Len(snake) + 1
               /\ score' = score + 1
          ELSE /\ Len(snake') = Len(snake)
               /\ snake'[1] = StepHead
               /\ score' = score]_vars

\* C6 witness: a snake that has eaten twice and not been truncated
C6_Witness ==
    state = "PLAYING" /\ score = 2 /\ Len(snake) = 3 /\ direction # <<0, 0>>

\* C7 (as claimed): a step whose new head is a segment of the pre-step
\* snake always ends the game with the reason "Ate yourself!".  Violated
\* when that segment lies outside the window (see C1): the wall check
\* comes first and the reason is "Hit the wall!".
C7_SelfCollisionEndsGame ==
    [][(MovingStep /\ \E i \in 1..Len(snake) : snake[i] = StepHead) =>
          /\ state' = "GAME_OVER"
          /\ game_over_reason' = "Ate yourself!"]_vars

\* C8: a step in PLAYING whose new head lies outside the window always
\* moves to GAME_OVER with the reason "Hit the wall!".
C8_WallCollisionEndsGame ==
    [][(MovingStep /\ ~InWindow(StepHead)) =>
          /\ state' = "GAME_OVER"
          /\ game_over_reason' = "Hit the wall!"]_vars

\* C8 witness: snake [(0,0),(25,0)] moving left has hit the wall
C8_Witness ==
    /\ state = "GAME_OVER" /\ game_over_reason = "Hit the wall!"
    /\ snake = <<(<<0, 0>>), (<<25, 0>>)>>
    /\ direction = <<-25, 0>>

\* the scenario of C9: snake [(50,50)] moving right, food at (75,50) inside
\* the window, and a step is taken
C9_Scenario ==
    /\ update_game /\ state = "PLAYING"
    /\ snake = <<(<<50, 50>>)>>
    /\ direction = <<25, 0>> /\ next_direction = <<25, 0>>
    /\ food_pos = <<75, 50>>
    /\ WIDTH > 75 /\ HEIGHT > 50

\* C9 (as claimed): the step of the scenario leaves snake = [(75,50)] and a
\* new food that is neither (75,50) nor on the snake.  Violated: the
\* eating step keeps the tail.
C9_ScenarioLeavesOneCell ==
    [][C9_Scenario =>
          /\ snake' = <<(<<75, 50>>)>>
          /\ food_pos' # <<75, 50>>
          /\ \A i \in 1..Len(snake') : snake'[i] # food_pos']_vars

\* C9 (amended): the step of the scenario eats the food and leaves
\* snake = [(75,50),(50,50)] with the score raised by 1; the food generated
\* afterwards differs from (75,50) and is not on the snake.
C9_ScenarioGrows ==
    [][C9_Scenario =>
          /\ snake' = <<(<<75, 50>>), (<<50, 50>>)>>
          /\ score' = score + 1
          /\ state' = "PLAYING"
          /\ food_pos' # <<75, 50>>
          /\ \A i \in 1..Len(snake') : snake'[i] # food_pos']_vars

\* C9 witness: the state the scenario's step leads to
C9_Witness ==
    /\ state = "PLAYING"
    /\ snake = <<(<<75, 50>>), (<<50, 50>>)>>
    /\ direction = <<25, 0>>
    /\ score = 1
    /\ food_pos \notin {<<75, 50>>, <<50, 50>>}

\* the transitions of the game state machine
ListedTransitions ==
    {<<"MENU", "PLAYING">>, <<"MENU", "SETTINGS">>,
     <<"PLAYING", "PAUSED">>, <<"PLAYING", "GAME_OVER">>,
     <<"PAUSED", "PLAYING">>, <<"PAUSED", "MENU">>,
     <<"GAME_OVER", "PLAYING">>, <<"GAME_OVER", "MENU">>}

\* C10: the game starts in MENU and every change of the game state is one
\* of the listed transitions; so GAME_OVER and PAUSED are entered only from
\* PLAYING.
C10_OnlyListedTransitions ==
    /\ state = "MENU"
    /\ [][state' # state =>
            /\ <<state, state'>> \in ListedTransitions
            /\ state' \in {"GAME_OVER", "PAUSED"} => state = "PLAYING"]_vars

\* C10 witness: back in MENU after a game that ended
C10_Witness == state = "MENU" /\ game_over_reason # ""

\* an input event of run()'s loop: a key or a resize
InputEvent ==
    \/ \E key \in Keys : \/ handle_menu_events(key)
                         \/ handle_playing_events(key)
                         \/ handle_paused_events(key)
                         \/ handle_game_over_events(key)
    \/ \E e \in ResizeEventsNow : handle_resize(e[1], e[2])

\* C11 (as claimed): in every reachable state some input event leads to a
\* different game state.  Violated in SETTINGS: run() dispatches key events
\* for MENU, PLAYING, PAUSED and GAME_OVER only.
C11_NoTerminalState == ENABLED (InputEvent /\ state' # state)

\* a resize event received while the state is PLAYING
ResizeWhilePlaying ==
    state = "PLAYING" /\ \E e \in ResizeEventsNow : handle_resize(e[1], e[2])

\* a position inside the window as the step leaves it
InNewWindow(p) == 0 <= p[1] /\ p[1] < WIDTH' /\ 0 <= p[2] /\ p[2] < HEIGHT'

\* C12: a resize during PLAYING whose new window does not contain the
\* snake's head moves to GAME_OVER with the reason
\* "Screen resized - snake out of bounds!".
C12_ResizeLosingHeadEndsGame ==
    [][(ResizeWhilePlaying /\ ~InNewWindow(snake[1])) =>
          /\ state' = "GAME_OVER"
          /\ game_over_reason' = "Screen resized - snake out of bounds!"]_vars

\* C12 witness: a game ended by a resize that cut off the head and kept
\* another segment
C12_Witness ==
    /\ state = "GAME_OVER"
    /\ game_over_reason = "Screen resized - snake out of bounds!"
    /\ ~InWindow(snake[1])
    /\ \E i \in 2..Len(snake) : InWindow(snake[i])

\* C13: a resize to the size the window already has leaves WIDTH and
\* HEIGHT (and so the grid) as they are; and any resize whose new window
\* contains the food and every snake segment leaves the snake, the food,
\* the score and the game state unchanged.
C13_ResizeIdempotent ==
    [][/\ handle_resize(WIDTH, HEIGHT) => (WIDTH' = WIDTH /\ HEIGHT' = HEIGHT)
       /\ \A e \in ResizeEventsNow :
            (/\ handle_resize(e[1], e[2])
             /\ InNewWindow(food_pos)
             /\ \A i \in 1..Len(snake) : InNewWindow(snake[i]))
            => UNCHANGED <<snake, food_pos, score, state>>]_vars

\* C13 witness: a game going on in the shrunk window, snake and food inside
C13_Witness ==
    /\ state = "PLAYING"
    /\ WIDTH = MIN_WIDTH /\ HEIGHT = MIN_HEIGHT
    /\ Len(snake) >= 2
    /\ direction # <<0, 0>>
    /\ InWindow(food_pos)
    /\ \A i \in 1..Len(snake) : InWindow(snake[i])

\* C14: a step changes high_score only by ending the game: it then leaves
\* PLAYING for GAME_OVER and sets high_score to the larger of the old
\* high_score and the score; so high_score never decreases, and
\* high_score >= score whenever the state is GAME_OVER.
C14_HighScoreOnlyByGameOver ==
    /\ [][high_score' # high_score =>
            /\ state = "PLAYING" /\ state' = "GAME_OVER"
            /\ game_over_reason' \in {"Hit the wall!", "Ate yourself!",
                                      "Screen resized - snake out of bounds!"}
            /\ high_score' = (IF score >= high_score THEN score ELSE high_score)
            /\ high_score' > high_score]_vars
    /\ [][state' = "GAME_OVER" /\ state # "GAME_OVER" =>
            high_score' = (IF score >= high_score THEN score ELSE high_score)]_vars
    /\ [](state = "GAME_OVER" => high_score >= score)

\* C14 witness: a game that ended with a score above the stored high score
C14_Witness ==
    state = "GAME_OVER" /\ score >= 2 /\ high_score = score

\* a key event that calls reset_game
ResetStep ==
    \/ handle_menu_events("SPACE") \/ handle_menu_events("RETURN")
    \/ handle_playing_events("r")
    \/ handle_paused_events("r")
    \/ handle_game_over_events("r") \/ handle_game_over_events("SPACE")

\* C15: after a reset, from any state, the snake is the single cell at the
\* grid centre of the current window, direction and next_direction are
\* (0,0), the score is 0, the food is a cell inside the window other than
\* the snake's, and both particle pools are empty; high_score and the
\* window size are unchanged.
C15_ResetGame ==
    [][ResetStep =>
          /\ snake' = <<(<<((WIDTH \div CELL_SIZE) \div 2) * CELL_SIZE,
                          ((HEIGHT \div CELL_SIZE) \div 2) * CELL_SIZE>>)>>
          /\ direction' = <<0, 0>>
          /\ next_direction' = <<0, 0>>
          /\ score' = 0
          /\ InNewWindow(food_pos')
          /\ food_pos'[1] % CELL_SIZE = 0 /\ food_pos'[2] % CELL_SIZE = 0
          /\ food_pos' # snake'[1]
          /\ particles' = FALSE
          /\ food_particles' = FALSE
          /\ high_score' = high_score
          /\ WIDTH' = WIDTH /\ HEIGHT' = HEIGHT]_vars

\* C15 witness: a new game in the shrunk window, started by a reset after a
\* game that raised the high score
C15_Witness ==
    /\ state = "PLAYING"
    /\ WIDTH = MIN_WIDTH /\ HEIGHT = MIN_HEIGHT
    /\ snake = <<(<<CELL_SIZE, CELL_SIZE>>)>>
    /\ direction = <<0, 0>> /\ next_direction = <<0, 0>>
    /\ score = 0 /\ high_score >= 2
    /\ ~particles /\ ~food_particles

\* the reverse of a direction
Reverse(d) == <<0 - d[1], 0 - d[2]>>

\* C16 (as claimed): the direction a step commits is never the reverse of
\* the non-zero direction of the step before, and a snake of length >= 2
\* never moves its head onto its second segment.  Violated: after a resize
\* has cut segments out of the snake, the second segment may lie beside
\* the head in a direction the snake may turn to.
C16_NoReversalNoNeckHit ==
    [][MovingStep =>
          /\ direction # <<0, 0>> => direction' # Reverse(direction)
          /\ Len(snake) >= 2 => StepHead # snake[2]]_vars

\* C16 (amended): the direction a step commits is never the reverse of the
\* non-zero direction of the step before, and a snake of length >= 2 from
\* which no resize has removed a segment since the last reset (its length
\* is score + 1) never moves its head onto its second segment.
C16_NoReversalNoNeckHitUntruncated ==
    [][MovingStep =>
          /\ direction # <<0, 0>> => direction' # Reverse(direction)
          /\ (Len(snake) >= 2 /\ Len(snake) = score + 1)
                => StepHead # snake[2]]_vars

\* C16 witness: a snake of two segments that has just turned
C16_Witness ==
    /\ state = "PLAYING"
    /\ Len(snake) = 2 /\ score = 1
    /\ direction = <<0, CELL_SIZE>>
    /\ snake[2] = <<snake[1][1], snake[1][2] - CELL_SIZE>>
    /\ next_direction = <<CELL_SIZE, 0>>

\* the place of position p in the snake s
Pos(s, p) == CHOOSE i \in 1..Len(s) : s[i] = p

\* C17: after a resize during PLAYING that does not end the game, the snake
\* consists of exactly the segments of the old snake that lie inside the
\* new window, in their old order, its head is the old head, and the food
\* lies inside the new window.
C17_NonFatalResizeKeepsInBoundsSegments ==
    [][(ResizeWhilePlaying /\ state' = "PLAYING") =>
          /\ \A i \in 1..Len(snake') :
                /\ InNewWindow(snake'[i])
                /\ \E j \in 1..Len(snake) : snake[j] = snake'[i]
          /\ \A j \in 1..Len(snake) :
                InNewWindow(snake[j]) =>
                    \E i \in 1..Len(snake') : snake'[i] = snake[j]
          /\ \A i, k \in 1..Len(snake') :
                i < k => Pos(snake, snake'[i]) < Pos(snake, snake'[k])
          /\ snake'[1] = snake[1]
          /\ InNewWindow(food_pos')]_vars

\* C17 witness: a game going on after a resize removed a segment and moved
\* the food
C17_Witness ==
    /\ state = "PLAYING"
    /\ WIDTH = MIN_WIDTH /\ HEIGHT = MIN_HEIGHT
    /\ Len(snake) >= 2 /\ Len(snake) < score + 1
    /\ \A i \in 1..Len(snake) : InWindow(snake[i])
    /\ InWindow(food_pos)
    /\ direction # <<0, 0>>

\* a resize event received while the state is not PLAYING
ResizeWhileNotPlaying ==
    state # "PLAYING" /\ \E e \in ResizeEventsNow : handle_resize(e[1], e[2])

\* C18: a resize received in MENU, PAUSED, GAME_OVER or SETTINGS changes
\* only the window size: the snake, the food, the directions, the score
\* and the game state stay as they are and game_over is not called (no
\* reason is set, high_score and the particle pools are untouched).
C18_ResizeOutsidePlayingOnlyResizes ==
    [][ResizeWhileNotPlaying =>
          /\ UNCHANGED <<snake, food_pos, direction, next_direction, score,
                         state>>
          /\ UNCHANGED <<game_over_reason, high_score, particles,
                         food_particles>>]_vars

\* C18 witness: a paused game whose snake a resize has left outside the
\* window
C18_Witness ==
    /\ state = "PAUSED"
    /\ WIDTH = MIN_WIDTH /\ HEIGHT = MIN_HEIGHT
    /\ ~InWindow(snake[1])
    /\ ~InWindow(food_pos)

\* C19: while the state is not PLAYING a step of update_game changes
\* nothing: the snake, both directions, the food, the score and the state
\* are the same after it, frame after frame.
C19_StepFrozenOutsidePlaying ==
    [][(update_game /\ state # "PLAYING") =>
          UNCHANGED <<snake, direction, next_direction, food_pos, score,
                      state>>]_vars

\* C19 witness: a paused game whose snake would move at the next step
C19_Witness ==
    /\ state = "PAUSED"
    /\ Len(snake) >= 2
    /\ StepDirection # <<0, 0>>
    /\ InWindow(StepHead)
    /\ StepHead \notin Segments(snake)

\* a game that has not started moving: PLAYING with both directions (0,0)
AtRest ==
    state = "PLAYING" /\ direction = <<0, 0>> /\ next_direction = <<0, 0>>

\* C20: while the game is PLAYING with direction and next_direction both
\* (0,0), a step of update_game changes neither the snake, the food, the
\* score nor the state, and a movement key in any of the four directions
\* is accepted: next_direction becomes the direction of the key.
C20_RestUntilFirstKey ==
    [][/\ (update_game /\ AtRest) =>
            UNCHANGED <<snake, food_pos, score, state, direction,
                        next_direction>>
       /\ \A key \in MovementKeys :
            (handle_playing_events(key) /\ AtRest) =>
                /\ next_direction' = Requested(key)
                /\ UNCHANGED <<snake, food_pos, score, state>>]_vars

\* C20 witness: the first key of a new game has been accepted and no step
\* has moved the snake yet
C20_Witness ==
    /\ state = "PLAYING"
    /\ direction = <<0, 0>>
    /\ next_direction = <<0, CELL_SIZE>>
    /\ Len(snake) = 1 /\ score = 0
    /\ high_score >= 2

\* ---- C21 ----

\* p comes first among the cells of free when the columns are visited from
\* left to right and each column from top to bottom
ColumnFirst(p, free) ==
    p \in free /\ \A q \in free : p[1] < q[1] \/ (p[1] = q[1] /\ p[2] <= q[2])

\* p comes first among the cells of free when the rows are visited from top
\* to bottom and each row from left to right
RowFirst(p, free) ==
    p \in free /\ \A q \in free : p[2] < q[2] \/ (p[2] = q[2] /\ p[1] <= q[1])

\* the cells of the window that are not in the snake
FreeCells == ScanCells(WIDTH, HEIGHT) \ Segments(snake)

\* C21 as stated: when all random trials of spawn_food collide with the
\* snake (and a free cell exists), the fallback scan returns the first free
\* cell in row-major order: the free cell with the smallest y and, among
\* those, the smallest x.
C21_FallbackRowMajor ==
    [][(FallbackSpawn /\ FreeCells # {}) => RowFirst(food_pos', FreeCells)]_vars

\* C21 amended: when all random trials of spawn_food collide with the snake
\* (and a free cell exists), the fallback scan returns the first free cell
\* in column-major order: the free cell with the smallest x and, among
\* those, the smallest y.
C21_FallbackColumnMajor ==
    [][(FallbackSpawn /\ FreeCells # {}) =>
            ColumnFirst(food_pos', FreeCells)]_vars

\* C21 witness: the call has returned (the food is no longer under the
\* head), the food is the first free cell by columns, and the first free
\* cell by rows is another one
C21_Witness ==
    /\ food_pos # snake[1]
    /\ ColumnFirst(food_pos, FreeCells)
    /\ \E q \in FreeCells : RowFirst(q, FreeCells) /\ q # food_pos

\* ---- C22 ----

\* consecutive segments of the snake s are adjacent grid cells
AllAdjacent(s) == \A i \in 1..(Len(s) - 1) : Adjacent(s[i], s[i + 1])

\* the resize event of SpecGap arrives
NarrowStep == handle_resize(NarrowEvent[1], NarrowEvent[2])

\* C22: consecutive snake segments stay adjacent cells under every event and
\* step except a resize during PLAYING that the game survives: only such a
\* resize (the head is kept, segments outside the new window are removed)
\* can leave two consecutive segments that are not adjacent.
C22_GapOnlyByNonFatalResize ==
    [][(AllAdjacent(snake) /\ ~AllAdjacent(snake')) =>
            /\ NarrowStep
            /\ state = "PLAYING" /\ state' = "PLAYING"
            /\ snake'[1] = snake[1]
            /\ Len(snake') < Len(snake)]_vars

\* C22 witness: a game that goes on in the narrowed window with its head,
\* fewer segments than the score gave it, and two consecutive segments that
\* are not adjacent
C22_Witness ==
    /\ state = "PLAYING"
    /\ WIDTH = NarrowEvent[1]
    /\ snake # <<>> /\ InBounds(snake[1], WIDTH, HEIGHT)
    /\ Len(snake) < score + 1
    /\ ~AllAdjacent(snake)

\* ---- C23 ----

\* a step of update_game that ends the game
FatalStep == update_game /\ state = "PLAYING" /\ state' = "GAME_OVER"

\* C23 as stated: a step that ends the game (wall or self collision) leaves
\* the snake, the food position, the score and the direction exactly as they
\* were before the step; only the game state, the game-over reason and
\* possibly high_score change.
C23_FatalStepKeepsDirection ==
    [][FatalStep =>
          UNCHANGED <<snake, food_pos, score, direction, next_direction,
                      WIDTH, HEIGHT>>]_vars

\* C23 amended: a step that ends the game (wall or self collision) leaves
\* the snake, the food position, the score and next_direction exactly as
\* they were before the step; direction becomes next_direction when that is
\* not (0,0); besides it only the game state, the game-over reason, possibly
\* high_score and, with particles enabled, the explosion pool change.
C23_FatalStepCommitsDirection ==
    [][FatalStep =>
          /\ UNCHANGED <<snake, food_pos, score, next_direction, WIDTH,
                         HEIGHT, no_space_found, food_particles,
                         settings_particles>>
          /\ direction' = (IF next_direction # <<0, 0>> THEN next_direction
                                                        ELSE direction)
          /\ game_over_reason' \in {"Hit the wall!", "Ate yourself!"}
          /\ high_score' \in {high_score, score}
          /\ high_score' >= high_score
          /\ particles' = (settings_particles \/ particles)]_vars

\* C23 witness: a game ended by a step whose direction is not the one of the
\* move before it: the snake is whole, and the head is not where the neck
\* plus the direction is
C23_Witness ==
    /\ state = "GAME_OVER"
    /\ game_over_reason \in {"Hit the wall!", "Ate yourself!"}
    /\ Len(snake) >= 2 /\ Len(snake) = score + 1
    /\ direction # <<snake[1][1] - snake[2][1], snake[1][2] - snake[2][2]>>
    /\ particles

\* ---- C24 ----

\* C24: in every reachable state len(snake) <= score + 1 and the score is not
\* negative; a snake with len(snake) = score + 1 loses the equality only in
\* a resize during PLAYING that removes segments, and a reset restores it;
\* the score decreases only in a step that calls reset_game.
C24_LengthAndScore ==
    /\ [](Len(snake) <= score + 1 /\ score >= 0)
    /\ [][/\ (Len(snake) = score + 1 /\ Len(snake') # score' + 1) =>
                (ResizeWhilePlaying /\ Len(snake') < Len(snake)
                    /\ score' = score)
          /\ (Len(snake) # score + 1 /\ Len(snake') = score' + 1) => ResetStep
          /\ score' < score => ResetStep]_vars

\* C24 witness: a game goes on after a resize has removed segments of a
\* snake that had eaten twice
C24_Witness ==
    /\ state = "PLAYING"
    /\ score >= 2
    /\ snake # <<>>
    /\ Len(snake) < score + 1

\* ---- C25 ----

\* C25: if the state is PLAYING with a non-zero direction and from then on
\* only simulation steps occur (no key or resize events), the game
\* eventually reaches GAME_OVER.
C25_LeftAloneGameEnds ==
    (quiet /\ state = "PLAYING" /\ direction # <<0, 0>>) ~> (state = "GAME_OVER")

\* C25 witness: a game left alone has ended at a wall or on the snake after
\* eating on its way, with a score no game reaches while events arrive
C25_Witness ==
    /\ quiet
    /\ state = "GAME_OVER"
    /\ game_over_reason \in {"Hit the wall!", "Ate yourself!"}
    /\ score > MaxScore

=============================================================================
